---- MODULE Spec2Model ----
(***************************************************************************)
(* Hazard references of src/support/hazard.c: __wt_hazard_set,             *)
(* __wt_hazard_clear, __wt_hazard_empty, __hazard_dump and                 *)
(* __wt_hazard_validate, run by several sessions against the page eviction *)
(* server described in the comment of __wt_hazard_set.                     *)
(*                                                                         *)
(* Memory is modelled with one FIFO store buffer per session thread: a     *)
(* store to a hazard slot is seen at once by the session that made it and  *)
(* by the other threads only when it leaves the buffer.  WT_PUBLISH is the *)
(* write barrier followed by the store that the comments at its two uses   *)
(* describe: the earlier stores are completed, then the slot is stored.    *)
(***************************************************************************)
EXTENDS Integers, Sequences, FiniteSets

\* conn->hazard_size: the number of slots of every session's hazard list.
hazard_size == 2

\* The largest number of sessions in conn->sessions.
NumSessions == 2

\* The bound of the model: the calls started by the sessions and the pages
\* locked by the eviction server, together.
MaxCalls == 4

\* The empty value of a WT_HAZARD slot's page field.
NULL == "NULL"

Sessions == 1..NumSessions
Slots == 1..hazard_size

\* The pages of the cache, each with its WT_REF.
Pages == {"X", "Y"}

\* The pages of the scenario of capacity and slot reuse.
ScenarioPages == {"X", "Y", "Z"}

\* The call sites (file, line) that __wt_hazard_set is called from.
Origins == {"bt_page.c:71", "bt_walk.c:40"}

\* The call site that acquires page p: each page is reached from one place.
CallSite(p) == IF p = "X" THEN "bt_page.c:71" ELSE "bt_walk.c:40"

\* hp->file and hp->line of a slot that was never set.
NoOrigin == "none"

\* WT_REF state values: in memory, locked by the eviction server, not in memory.
RefStates == {"WT_REF_MEM", "WT_REF_LOCKED", "WT_REF_DISK"}

VARIABLES
    diagnostic,  \* TRUE when built with HAVE_DIAGNOSTIC
    run,         \* the run: its pages, its budget of calls, whether calls are logged
    nreg,        \* the number of sessions in conn->sessions
    hazard,      \* hazard[s][i]: session->hazard[i].page as session s's thread sees it
    origin,      \* origin[s][i]: hp->file and hp->line as session s's thread sees them
    mem,         \* mem[s][i]: the page field as every other thread sees it
    morigin,     \* morigin[s][i]: hp->file and hp->line as every other thread sees them
    mby,         \* mby[s][i]: the origin of the call whose store of mem[s][i] is visible
    sb,          \* sb[s]: the stores of s's thread not yet visible to other threads
    state,       \* state[p]: ref->state of the WT_REF of page p
    freed,       \* freed[p]: the eviction server has discarded page p
    pc,          \* pc[s]: where session s's thread is
    call,        \* call[s]: the call in progress, or the last one completed
    held,        \* held[s][p]: Acquired results for p minus releases of p
    closed,      \* closed[s]: __wt_hazard_empty has run (session.close)
    ev,          \* the eviction server's position
    report,      \* the last __wt_hazard_validate: its page, the slots it examined
                 \* and, when it failed, the session and origin it reported
    ncalls,      \* calls started and pages locked for eviction so far
    failure,     \* the message of the fatal failure that ended the process
    log          \* the calls completed so far, when the run logs them

vars == <<diagnostic, run, nreg, hazard, origin, mem, morigin, mby, sb, state,
          freed, pc, call, held, closed, ev, report, ncalls, failure,
          log>>

\* What no action changes: the build and the run.
build == <<diagnostic, run, nreg>>

\* The hazard slots as their session and as the other threads see them.
slots == <<hazard, origin, mem, morigin, mby, sb>>

\* The eviction server and the pages.
evict == <<state, freed, ev, report>>

NoCall == [op |-> "none", page |-> NULL, o |-> NoOrigin, hp |-> 0,
           pre |-> [i \in Slots |-> NULL], n |-> 0, ret |-> -1, st |-> "none",
           errx |-> 0]

EvIdle == [pc |-> "idle", page |-> NULL, s |-> 1, i |-> 1, n |-> 0]

NoReport == [s |-> 0, page |-> NULL, o |-> NoOrigin, n |-> 0]

\* The first slot with hp->page == v in the loops over session->hazard, 0 if none.
FirstSlot(h, v) ==
    IF \E i \in Slots : h[i] = v
    THEN CHOOSE i \in Slots : h[i] = v /\ \A j \in Slots : j < i => h[j] # v
    ELSE 0

\* The number of slots a loop over session->hazard examines when it stops at i.
Examined(i) == IF i = 0 THEN hazard_size ELSE i

\* The number of slots with hp->page != NULL.
NonEmpty(h) == Cardinality({i \in Slots : h[i] # NULL})

\* The field f of the slots as other threads see it once every buffered store
\* of b is complete.
RECURSIVE DrainField(_, _, _)
DrainField(m, b, f) ==
    IF b = <<>> THEN m
    ELSE DrainField(IF Head(b).f = f
                    THEN [m EXCEPT ![Head(b).slot] = Head(b).val]
                    ELSE m, Tail(b), f)

\* The page fields as other threads see them once every buffered store is complete.
Drain(m, b) == DrainField(m, b, "page")

\* The origin of the call behind each visible page field, after the same.
RECURSIVE DrainBy(_, _)
DrainBy(m, b) ==
    IF b = <<>> THEN m
    ELSE DrainBy(IF Head(b).f = "page"
                 THEN [m EXCEPT ![Head(b).slot] = Head(b).by]
                 ELSE m, Tail(b))

\* A buffered store of a page field by a call made from origin o.
PageStore(i, v, o) == [slot |-> i, f |-> "page", val |-> v, by |-> o]

\* A buffered store of hp->file and hp->line.
OriginStore(i, o) == [slot |-> i, f |-> "origin", val |-> o, by |-> o]

InitLists ==
    /\ hazard = [s \in Sessions |-> [i \in Slots |-> NULL]]
    /\ origin = [s \in Sessions |-> [i \in Slots |-> NoOrigin]]
    /\ mem = [s \in Sessions |-> [i \in Slots |-> NULL]]
    /\ morigin = [s \in Sessions |-> [i \in Slots |-> NoOrigin]]
    /\ mby = [s \in Sessions |-> [i \in Slots |-> NoOrigin]]
    /\ sb = [s \in Sessions |-> <<>>]
    /\ pc = [s \in Sessions |-> "idle"]
    /\ call = [s \in Sessions |-> NoCall]
    /\ closed = [s \in Sessions |-> FALSE]
    /\ ev = EvIdle
    /\ report = NoReport
    /\ ncalls = 0
    /\ failure = "none"
    /\ log = <<>>

Init ==
    /\ diagnostic \in BOOLEAN
    /\ run = [pages |-> Pages, calls |-> MaxCalls, logged |-> FALSE]
    /\ nreg \in 0..NumSessions
    /\ state = [p \in Pages |-> "WT_REF_MEM"]
    /\ freed = [p \in Pages |-> FALSE]
    /\ held = [s \in Sessions |-> [p \in Pages |-> 0]]
    /\ InitLists

\* WT_FAILURE and a failed WT_ASSERT: the message is reported and the failure
\* is fatal, the process goes no further.
Failure(s, msg) ==
    /\ failure' = msg
    /\ pc' = [pc EXCEPT ![s] = "failed"]

\* WT_ASSERT is checked in diagnostic builds.
AssertChecked == diagnostic

\* A session thread that may start a call.
CanCall(s) ==
    /\ failure = "none" /\ pc[s] = "idle" /\ ~closed[s]
    /\ s <= nreg /\ ncalls < run.calls

\* A completed call is added to the log of a run that keeps one.
Log(s, op, page, res) ==
    log' = IF run.logged THEN Append(log, <<s, op, page, res>>) ELSE log

----------------------------------------------------------------------------
(* __wt_hazard_set *)

\* A loop that keeps the last free slot it meets instead of stopping at the first.
SetSlotLast(h) ==
    IF \E i \in Slots : h[i] = NULL
    THEN CHOOSE i \in Slots : h[i] = NULL /\ \A j \in Slots : j > i => h[j] # NULL
    ELSE 0

\* The slot the loop of __wt_hazard_set stops at: the first with page == NULL.
SetSlot(h) == FirstSlot(h, NULL)

\* WT_PUBLISH(hp->page, v): write barrier, then the store; rest is the plain
\* stores that follow it in the same step.
Publish(s, i, v, o, rest) ==
    /\ mem' = [mem EXCEPT ![s] = Drain(mem[s], sb[s])]
    /\ morigin' = [morigin EXCEPT ![s] = DrainField(morigin[s], sb[s], "origin")]
    /\ mby' = [mby EXCEPT ![s] = DrainBy(mby[s], sb[s])]
    /\ sb' = [sb EXCEPT ![s] = <<PageStore(i, v, o)>> \o rest]
    /\ hazard' = [hazard EXCEPT ![s][i] = v]

\* hp->page = v: a plain store.
Store(s, i, v) ==
    /\ sb' = [sb EXCEPT ![s] = Append(sb[s], PageStore(i, v, NoOrigin))]
    /\ hazard' = [hazard EXCEPT ![s][i] = v]
    /\ UNCHANGED <<origin, mem, morigin, mby>>

\* The arguments of a call: a page of the run and, in diagnostic builds, the
\* file and line of the call site.
SetArgs(p, o) ==
    /\ p \in run.pages
    /\ o = IF diagnostic THEN CallSite(p) ELSE NoOrigin

\* Lines 55-58: hp->file and hp->line are stored after the page, in diagnostic
\* builds.
OriginStores(i, o) == IF diagnostic THEN <<OriginStore(i, o)>> ELSE <<>>

\* The slot of a call that reuses a slot already holding the page, when there
\* is one.
DedupSlot(h, p) == IF FirstSlot(h, p) # 0 THEN FirstSlot(h, p) ELSE SetSlot(h)

\* A call that gives the page one slot however many times it is acquired.
SetPublishDedup(s, p, o) ==
    /\ CanCall(s)
    /\ SetArgs(p, o)
    /\ SetSlot(hazard[s]) # 0
    /\ Publish(s, DedupSlot(hazard[s], p), p, o,
               OriginStores(DedupSlot(hazard[s], p), o))
    /\ origin' = IF diagnostic
                 THEN [origin EXCEPT ![s][DedupSlot(hazard[s], p)] = o]
                 ELSE origin
    /\ pc' = [pc EXCEPT ![s] = "set_check"]
    /\ call' = [call EXCEPT ![s] = [NoCall EXCEPT !.op = "set", !.page = p,
                    !.o = o, !.hp = DedupSlot(hazard[s], p), !.pre = hazard[s],
                    !.n = Examined(DedupSlot(hazard[s], p))]]
    /\ ncalls' = ncalls + 1
    /\ UNCHANGED <<build, evict, held, closed, failure, log>>

\* Lines 44-58: a free slot is found, the page is published into it and, in
\* diagnostic builds, the call site is stored.
SetPublish(s, p, o) ==
    /\ CanCall(s)
    /\ SetArgs(p, o)
    /\ SetSlot(hazard[s]) # 0
    /\ Publish(s, SetSlot(hazard[s]), p, o, OriginStores(SetSlot(hazard[s]), o))
    /\ origin' = IF diagnostic
                 THEN [origin EXCEPT ![s][SetSlot(hazard[s])] = o]
                 ELSE origin
    /\ pc' = [pc EXCEPT ![s] = "set_check"]
    /\ call' = [call EXCEPT ![s] = [NoCall EXCEPT !.op = "set", !.page = p,
                    !.o = o, !.hp = SetSlot(hazard[s]), !.pre = hazard[s],
                    !.n = Examined(SetSlot(hazard[s]))]]
    /\ ncalls' = ncalls + 1
    /\ UNCHANGED <<build, evict, held, closed, failure, log>>

\* The value of ref->state that lets the hazard reference stand.
Valid(st) == st = "WT_REF_MEM"

\* A call that waits for ref->state to become WT_REF_MEM before it returns.
SetCheckWaits(s) ==
    /\ failure = "none"
    /\ pc[s] = "set_check"
    /\ Valid(state[call[s].page])
    /\ pc' = [pc EXCEPT ![s] = "idle"]
    /\ call' = [call EXCEPT ![s].st = state[call[s].page], ![s].ret = 1]
    /\ held' = [held EXCEPT ![s][call[s].page] = @ + 1]
    /\ Log(s, "set", call[s].page, "1")
    /\ UNCHANGED <<build, slots, evict, closed, ncalls, failure>>

\* Lines 64-68: ref->state is read; WT_REF_MEM returns 1.
SetCheck(s) ==
    /\ failure = "none"
    /\ pc[s] = "set_check"
    /\ IF Valid(state[call[s].page])
       THEN /\ pc' = [pc EXCEPT ![s] = "idle"]
            /\ call' = [call EXCEPT ![s].st = state[call[s].page], ![s].ret = 1]
            /\ held' = [held EXCEPT ![s][call[s].page] = @ + 1]
            /\ Log(s, "set", call[s].page, "1")
       ELSE /\ pc' = [pc EXCEPT ![s] = "set_backout"]
            /\ call' = [call EXCEPT ![s].st = state[call[s].page]]
            /\ UNCHANGED <<held, log>>
    /\ UNCHANGED <<build, slots, evict, closed, ncalls, failure>>

\* A back-out that returns 0 and leaves the page in the slot.
SetBackoutKeeps(s) ==
    /\ failure = "none"
    /\ pc[s] = "set_backout"
    /\ pc' = [pc EXCEPT ![s] = "idle"]
    /\ call' = [call EXCEPT ![s].ret = 0]
    /\ Log(s, "set", call[s].page, "0")
    /\ UNCHANGED <<build, slots, evict, held, closed, ncalls, failure>>

\* Lines 78-79: the slot is cleared again and 0 is returned.
SetBackout(s) ==
    /\ failure = "none"
    /\ pc[s] = "set_backout"
    /\ Store(s, call[s].hp, NULL)
    /\ pc' = [pc EXCEPT ![s] = "idle"]
    /\ call' = [call EXCEPT ![s].ret = 0]
    /\ Log(s, "set", call[s].page, "0")
    /\ UNCHANGED <<build, evict, held, closed, ncalls, failure>>

\* Lines 168-189: __hazard_dump reports every slot in use and then fails.
HazardDumpFails(h) == NonEmpty(h) > 0

\* Lines 82-89: no slot is free.
SetNoSlot(s, p) ==
    /\ CanCall(s)
    /\ p \in run.pages
    /\ SetSlot(hazard[s]) = 0
    /\ IF diagnostic /\ HazardDumpFails(hazard[s])
       THEN /\ Failure(s, "unexpected hazard reference")
            /\ call' = [call EXCEPT ![s] = [NoCall EXCEPT !.op = "set",
                            !.page = p, !.pre = hazard[s],
                            !.n = Examined(0),
                            !.errx = 1 + NonEmpty(hazard[s])]]
            /\ UNCHANGED log
       ELSE /\ UNCHANGED <<failure, pc>>
            /\ call' = [call EXCEPT ![s] = [NoCall EXCEPT !.op = "set",
                            !.page = p, !.pre = hazard[s],
                            !.n = Examined(0), !.ret = 0, !.errx = 1]]
            /\ Log(s, "set", p, "full")
    /\ ncalls' = ncalls + 1
    /\ UNCHANGED <<build, slots, evict, held, closed>>

----------------------------------------------------------------------------
(* __wt_hazard_clear *)

\* Line 108: WT_ASSERT(session, page != NULL).
AssertFails(page) == AssertChecked /\ page = NULL

\* A loop that keeps the last matching slot instead of returning at the first.
ClearSlotLast(h, page) ==
    IF \E i \in Slots : h[i] = page
    THEN CHOOSE i \in Slots : h[i] = page /\ \A j \in Slots : j > i => h[j] # page
    ELSE 0

\* The slot the loop of __wt_hazard_clear stops at: the first with page == page.
ClearSlot(h, page) == FirstSlot(h, page)

\* The count of outstanding hazard references after a release of page.
Released(hd, page) ==
    IF page \in DOMAIN hd THEN [hd EXCEPT ![page] = @ - 1] ELSE hd

\* The page argument of a call: a page of the run, or NULL.
ClearArgs(page) == page \in run.pages \cup {NULL}

\* A call that goes on past the failed assertion and returns.
ClearAssertIgnored(s, page) ==
    /\ CanCall(s)
    /\ ClearArgs(page)
    /\ AssertFails(page)
    /\ call' = [call EXCEPT ![s] = [NoCall EXCEPT !.op = "clear",
                    !.page = page, !.pre = hazard[s], !.ret = 0]]
    /\ ncalls' = ncalls + 1
    /\ Log(s, "clear", page, "ok")
    /\ UNCHANGED <<build, slots, evict, pc, held, closed, failure>>

\* Line 108: the assertion fails.
ClearAssert(s, page) ==
    /\ CanCall(s)
    /\ ClearArgs(page)
    /\ AssertFails(page)
    /\ Failure(s, "page != NULL")
    /\ call' = [call EXCEPT ![s] = [NoCall EXCEPT !.op = "clear",
                    !.page = page, !.pre = hazard[s]]]
    /\ ncalls' = ncalls + 1
    /\ UNCHANGED <<build, slots, evict, held, closed, log>>

\* A loop without the return of line 122: every matching slot is cleared.
ClearFoundAll(s, page) ==
    /\ CanCall(s)
    /\ ClearArgs(page)
    /\ ~AssertFails(page)
    /\ ClearSlot(hazard[s], page) # 0
    /\ mem' = [mem EXCEPT ![s] = Drain(mem[s], sb[s])]
    /\ morigin' = [morigin EXCEPT ![s] = DrainField(morigin[s], sb[s], "origin")]
    /\ mby' = [mby EXCEPT ![s] = DrainBy(mby[s], sb[s])]
    /\ sb' = [sb EXCEPT ![s] =
                SelectSeq([i \in Slots |-> PageStore(i, NULL, NoOrigin)],
                          LAMBDA e : hazard[s][e.slot] = page)]
    /\ hazard' = [hazard EXCEPT ![s] =
                    [i \in Slots |-> IF hazard[s][i] = page THEN NULL
                                                            ELSE hazard[s][i]]]
    /\ call' = [call EXCEPT ![s] = [NoCall EXCEPT !.op = "clear",
                    !.page = page, !.hp = ClearSlot(hazard[s], page),
                    !.pre = hazard[s], !.ret = 0,
                    !.n = Examined(ClearSlot(hazard[s], page))]]
    /\ held' = [held EXCEPT ![s] = Released(held[s], page)]
    /\ ncalls' = ncalls + 1
    /\ Log(s, "clear", page, "ok")
    /\ UNCHANGED <<build, origin, evict, pc, closed, failure>>

\* The lowest session whose list holds page.
FirstHolder(page) ==
    CHOOSE t \in Sessions :
        /\ FirstSlot(hazard[t], page) # 0
        /\ \A u \in Sessions : u < t => FirstSlot(hazard[u], page) = 0

\* A release that looks for the page in the lists of every session and clears
\* the first slot it meets.
ClearFoundShared(s, page) ==
    /\ CanCall(s)
    /\ ClearArgs(page)
    /\ ~AssertFails(page)
    /\ FirstSlot(hazard[s], page) # 0
    /\ Publish(FirstHolder(page), FirstSlot(hazard[FirstHolder(page)], page),
               NULL, NoOrigin, <<>>)
    /\ call' = [call EXCEPT ![s] = [NoCall EXCEPT !.op = "clear",
                    !.page = page, !.hp = FirstSlot(hazard[s], page),
                    !.pre = hazard[s], !.ret = 0,
                    !.n = Examined(FirstSlot(hazard[s], page))]]
    /\ held' = [held EXCEPT ![FirstHolder(page)] = Released(@, page)]
    /\ ncalls' = ncalls + 1
    /\ Log(s, "clear", page, "ok")
    /\ UNCHANGED <<build, origin, evict, pc, closed, failure>>

\* Lines 114-123: the first matching slot is published as NULL.
ClearFound(s, page) ==
    /\ CanCall(s)
    /\ ClearArgs(page)
    /\ ~AssertFails(page)
    /\ ClearSlot(hazard[s], page) # 0
    /\ Publish(s, ClearSlot(hazard[s], page), NULL, NoOrigin, <<>>)
    /\ call' = [call EXCEPT ![s] = [NoCall EXCEPT !.op = "clear",
                    !.page = page, !.hp = ClearSlot(hazard[s], page),
                    !.pre = hazard[s], !.ret = 0,
                    !.n = Examined(ClearSlot(hazard[s], page))]]
    /\ held' = [held EXCEPT ![s] = Released(held[s], page)]
    /\ ncalls' = ncalls + 1
    /\ Log(s, "clear", page, "ok")
    /\ UNCHANGED <<build, origin, evict, pc, closed, failure>>

\* A call that returns when no slot matches, with no failure.
ClearNotFoundSilent(s, page) ==
    /\ CanCall(s)
    /\ ClearArgs(page)
    /\ ~AssertFails(page)
    /\ ClearSlot(hazard[s], page) = 0
    /\ call' = [call EXCEPT ![s] = [NoCall EXCEPT !.op = "clear",
                    !.page = page, !.pre = hazard[s], !.ret = 0]]
    /\ ncalls' = ncalls + 1
    /\ Log(s, "clear", page, "ok")
    /\ UNCHANGED <<build, slots, evict, pc, held, closed, failure>>

\* Line 124: no slot matches.
ClearNotFound(s, page) ==
    /\ CanCall(s)
    /\ ClearArgs(page)
    /\ ~AssertFails(page)
    /\ ClearSlot(hazard[s], page) = 0
    /\ Failure(s, "hazard reference not found")
    /\ call' = [call EXCEPT ![s] = [NoCall EXCEPT !.op = "clear",
                    !.page = page, !.pre = hazard[s], !.n = Examined(0)]]
    /\ ncalls' = ncalls + 1
    /\ UNCHANGED <<build, slots, evict, held, closed, log>>

----------------------------------------------------------------------------
(* __wt_hazard_empty *)

\* Lines 153-160: one store of NULL for each slot in use, in slot order.
EmptyStores(h) ==
    SelectSeq([i \in Slots |-> PageStore(i, NULL, NoOrigin)],
              LAMBDA e : h[e.slot] # NULL)

\* Lines 149-151: in diagnostic builds __hazard_dump runs first and fails.
EmptyDump(s) ==
    /\ CanCall(s)
    /\ diagnostic /\ HazardDumpFails(hazard[s])
    /\ Failure(s, "unexpected hazard reference")
    /\ call' = [call EXCEPT ![s] = [NoCall EXCEPT !.op = "empty",
                    !.pre = hazard[s], !.n = Examined(0),
                    !.errx = NonEmpty(hazard[s])]]
    /\ ncalls' = ncalls + 1
    /\ UNCHANGED <<build, slots, evict, held, closed, log>>

\* Lines 153-160: every slot in use is cleared and reported.
Empty(s) ==
    /\ CanCall(s)
    /\ ~(diagnostic /\ HazardDumpFails(hazard[s]))
    /\ sb' = [sb EXCEPT ![s] = sb[s] \o EmptyStores(hazard[s])]
    /\ hazard' = [hazard EXCEPT ![s] = [i \in Slots |-> NULL]]
    /\ call' = [call EXCEPT ![s] = [NoCall EXCEPT !.op = "empty",
                    !.pre = hazard[s], !.ret = 0, !.n = Examined(0),
                    !.errx = Len(EmptyStores(hazard[s]))]]
    /\ closed' = [closed EXCEPT ![s] = TRUE]
    /\ held' = [held EXCEPT ![s] = [p \in DOMAIN held[s] |-> 0]]
    /\ ncalls' = ncalls + 1
    /\ Log(s, "empty", NULL, "ok")
    /\ UNCHANGED <<build, origin, mem, morigin, mby, evict, pc, failure>>

----------------------------------------------------------------------------
(* The page eviction server, as the comments of __wt_hazard_set describe it, *)
(* and __wt_hazard_validate, which it calls in diagnostic builds before it   *)
(* discards the page.                                                        *)

\* The slot after the one a scan of conn->sessions is at; n counts the slots
\* examined.
NextSlot(e) ==
    IF e.i < hazard_size THEN [e EXCEPT !.i = @ + 1, !.n = @ + 1]
                         ELSE [e EXCEPT !.s = @ + 1, !.i = 1, !.n = @ + 1]

\* Line 204: the loop over conn->sessions has met the terminating NULL.
ScanDone(e) == e.s > nreg

\* The state is set to WT_REF_LOCKED and memory is flushed.
EvictLock(p) ==
    /\ failure = "none"
    /\ ev.pc = "idle"
    /\ ncalls < run.calls
    /\ p \in run.pages
    /\ state[p] = "WT_REF_MEM"
    /\ state' = [state EXCEPT ![p] = "WT_REF_LOCKED"]
    /\ ev' = [pc |-> "scan", page |-> p, s |-> 1, i |-> 1, n |-> 0]
    /\ ncalls' = ncalls + 1
    /\ UNCHANGED <<build, slots, freed, report, pc, call, held, closed,
                   failure, log>>

\* The slot the scan is at does not hold the page.
EvictScan ==
    /\ failure = "none"
    /\ ev.pc = "scan"
    /\ ~ScanDone(ev)
    /\ mem[ev.s][ev.i] # ev.page
    /\ ev' = NextSlot(ev)
    /\ UNCHANGED <<build, slots, state, freed, report, pc, call, held,
                   closed, ncalls, failure, log>>

\* The scan sees a hazard reference: the page is returned to use.
EvictSeesHazard ==
    /\ failure = "none"
    /\ ev.pc = "scan"
    /\ ~ScanDone(ev)
    /\ mem[ev.s][ev.i] = ev.page
    /\ state' = [state EXCEPT ![ev.page] = "WT_REF_MEM"]
    /\ ev' = EvIdle
    /\ UNCHANGED <<build, slots, freed, report, pc, call, held, closed,
                   ncalls, failure, log>>

\* No slot held the page: in diagnostic builds __wt_hazard_validate is called.
EvictValidate ==
    /\ failure = "none"
    /\ ev.pc = "scan"
    /\ ScanDone(ev)
    /\ diagnostic
    /\ ev' = [ev EXCEPT !.pc = "validate", !.s = 1, !.i = 1, !.n = 0]
    /\ UNCHANGED <<build, slots, state, freed, report, pc, call, held,
                   closed, ncalls, failure, log>>

\* A comparison that takes every slot in use for a match.
ValidateMatchAny(v, page) == v # NULL

\* Line 207: hp->page == page.
ValidateMatch(v, page) == v = page

\* Lines 204-207: the slot __wt_hazard_validate is at does not match.
ValidateScan ==
    /\ failure = "none"
    /\ ev.pc = "validate"
    /\ ~ScanDone(ev)
    /\ ~ValidateMatch(mem[ev.s][ev.i], ev.page)
    /\ ev' = NextSlot(ev)
    /\ UNCHANGED <<build, slots, state, freed, report, pc, call, held,
                   closed, ncalls, failure, log>>

\* Lines 207-212: the slot matches; the failure names its session and reports
\* hp->page, hp->file and hp->line.
ValidateFails ==
    /\ failure = "none"
    /\ ev.pc = "validate"
    /\ ~ScanDone(ev)
    /\ ValidateMatch(mem[ev.s][ev.i], ev.page)
    /\ failure' = "discarded page has hazard reference"
    /\ report' = [s |-> ev.s, page |-> mem[ev.s][ev.i],
                  o |-> morigin[ev.s][ev.i], n |-> ev.n + 1]
    /\ ev' = [ev EXCEPT !.pc = "failed", !.n = @ + 1]
    /\ UNCHANGED <<build, slots, state, freed, pc, call, held, closed,
                   ncalls, log>>

\* The page is discarded: after the scan, or after __wt_hazard_validate returned.
EvictDiscard ==
    /\ failure = "none"
    /\ ScanDone(ev)
    /\ \/ ev.pc = "scan" /\ ~diagnostic
       \/ ev.pc = "validate"
    /\ state' = [state EXCEPT ![ev.page] = "WT_REF_DISK"]
    /\ freed' = [freed EXCEPT ![ev.page] = TRUE]
    /\ report' = IF ev.pc = "validate"
                 THEN [NoReport EXCEPT !.page = ev.page, !.n = ev.n]
                 ELSE report
    /\ ev' = EvIdle
    /\ UNCHANGED <<build, slots, pc, call, held, closed, ncalls, failure, log>>

----------------------------------------------------------------------------
(* The store buffer *)

\* The oldest buffered store of s's thread becomes visible to the other threads.
Flush(s) ==
    /\ failure = "none"
    /\ sb[s] # <<>>
    /\ IF Head(sb[s]).f = "page"
       THEN /\ mem' = [mem EXCEPT ![s][Head(sb[s]).slot] = Head(sb[s]).val]
            /\ mby' = [mby EXCEPT ![s][Head(sb[s]).slot] = Head(sb[s]).by]
            /\ UNCHANGED morigin
       ELSE /\ morigin' = [morigin EXCEPT ![s][Head(sb[s]).slot] = Head(sb[s]).val]
            /\ UNCHANGED <<mem, mby>>
    /\ sb' = [sb EXCEPT ![s] = Tail(sb[s])]
    /\ UNCHANGED <<build, hazard, origin, evict, pc, call, held, closed, ncalls,
                   failure, log>>

\* The steps of the session threads.
SessionNext ==
    \/ \E s \in Sessions, p \in ScenarioPages, o \in Origins \cup {NoOrigin} :
            SetPublish(s, p, o)
    \/ \E s \in Sessions : SetCheck(s)
    \/ \E s \in Sessions : SetBackout(s)
    \/ \E s \in Sessions, p \in ScenarioPages : SetNoSlot(s, p)
    \/ \E s \in Sessions, page \in ScenarioPages \cup {NULL} : ClearAssert(s, page)
    \/ \E s \in Sessions, page \in ScenarioPages \cup {NULL} : ClearFound(s, page)
    \/ \E s \in Sessions, page \in ScenarioPages \cup {NULL} : ClearNotFound(s, page)
    \/ \E s \in Sessions : EmptyDump(s)
    \/ \E s \in Sessions : Empty(s)
    \/ \E s \in Sessions : Flush(s)

\* The steps of the eviction server.
EvictNext ==
    \/ \E p \in Pages : EvictLock(p)
    \/ EvictScan
    \/ EvictSeesHazard
    \/ EvictValidate
    \/ ValidateScan
    \/ ValidateFails
    \/ EvictDiscard

Next == SessionNext \/ EvictNext

Spec == Init /\ [][Next]_vars

----------------------------------------------------------------------------
(* The scenario of capacity and slot reuse: one session, the pages X, Y and Z, *)
(* no eviction; every call is logged.                                         *)

\* Calls enough to fill the list, meet the full list, release and acquire again.
ScenarioCalls == hazard_size + 3

InitScenario ==
    /\ diagnostic \in BOOLEAN
    /\ run = [pages |-> ScenarioPages, calls |-> ScenarioCalls, logged |-> TRUE]
    /\ nreg = 1
    /\ state \in [ScenarioPages -> {"WT_REF_MEM", "WT_REF_DISK"}]
    /\ freed = [p \in ScenarioPages |-> FALSE]
    /\ held = [s \in Sessions |-> [p \in ScenarioPages |-> 0]]
    /\ InitLists

SpecScenario == InitScenario /\ [][SessionNext]_vars

----------------------------------------------------------------------------
(* Properties *)

\* Session s is inside __wt_hazard_set, between the publish and the return.
InSet(s) == pc[s] \in {"set_check", "set_backout"}

\* The number of slots of list h that hold page p.
Holding(h, p) == Cardinality({i \in Slots : h[i] = p})

\* C1: no page is discarded by the eviction server while a session that got
\* 1 from __wt_hazard_set for it has not yet called __wt_hazard_clear for it.
MutualExclusion ==
    \A s \in Sessions, p \in Pages : freed[p] => held[s][p] = 0

\* C2: __wt_hazard_set never reads ref->state while its store to the hazard
\* slot is still in the store buffer, not yet visible to the other threads.
PublishVisibleBeforeStateLoad ==
    [][\A s \in Sessions :
          (pc[s] = "set_check" /\ pc'[s] # "set_check") => sb[s] = <<>>]_vars

\* C3: __wt_hazard_set returns 1 exactly when the list had an empty slot and
\* the state read after the publish was WT_REF_MEM; then the lowest-indexed
\* slot that was empty holds the page and every other slot is as before.
AcquireSuccess ==
    \A s \in Sessions :
        (call[s].op = "set" /\ ~InSet(s)) =>
            /\ (call[s].ret = 1) <=>
                   /\ \E i \in Slots : call[s].pre[i] = NULL
                   /\ call[s].st = "WT_REF_MEM"
            /\ (call[s].ret = 1) =>
                   \E i \in Slots :
                       /\ call[s].pre[i] = NULL
                       /\ \A j \in Slots : j < i => call[s].pre[j] # NULL
                       /\ hazard[s] = [call[s].pre EXCEPT ![i] = call[s].page]

\* C3 witness: a call returned 1 when two slots were empty; the lower one
\* holds the page and the higher one is still empty.
AcquireSuccessWitness ==
    \E s \in Sessions : \E i, j \in Slots :
        /\ pc[s] = "idle" /\ call[s].op = "set" /\ call[s].ret = 1
        /\ i < j /\ call[s].pre[i] = NULL /\ call[s].pre[j] = NULL
        /\ hazard[s][i] = call[s].page /\ hazard[s][j] = NULL

\* C4: a __wt_hazard_set that found a free slot and read a state other than
\* WT_REF_MEM returns 0 and leaves the session's hazard list as it was.
FailedAcquireBacksOut ==
    \A s \in Sessions :
        (call[s].op = "set" /\ ~InSet(s)
         /\ call[s].st \in {"WT_REF_LOCKED", "WT_REF_DISK"}) =>
            /\ call[s].ret = 0
            /\ hazard[s] = call[s].pre

\* C4 witness: a call on a locked page returned 0 in a session that holds
\* another hazard reference.
FailedAcquireWitness ==
    \E s \in Sessions :
        /\ pc[s] = "idle" /\ call[s].op = "set" /\ call[s].ret = 0
        /\ call[s].st = "WT_REF_LOCKED" /\ call[s].hp # 0
        /\ \E i \in Slots : hazard[s][i] # NULL
        /\ hazard[s] = call[s].pre

\* C5: a __wt_hazard_set made when every slot is in use reports the
\* exhaustion, returns 0 and leaves every slot as it was.
CapacityBoundary ==
    \A s \in Sessions :
        (call[s].op = "set" /\ ~InSet(s)
         /\ \A i \in Slots : call[s].pre[i] # NULL) =>
            /\ call[s].ret = 0
            /\ call[s].errx >= 1
            /\ hazard[s] = call[s].pre

\* C6: __wt_hazard_clear(P) on a list that holds P empties the lowest-indexed
\* slot holding P, leaves every other slot as it was and reports no failure.
ReleaseRemovesOne ==
    \A s \in Sessions, p \in Pages :
        (call[s].op = "clear" /\ call[s].page = p
         /\ \E i \in Slots : call[s].pre[i] = p) =>
            /\ call[s].ret = 0
            /\ pc[s] # "failed"
            /\ \E i \in Slots :
                   /\ call[s].pre[i] = p
                   /\ \A j \in Slots : j < i => call[s].pre[j] # p
                   /\ hazard[s] = [call[s].pre EXCEPT ![i] = NULL]

\* C6 witness: a release of a page held in two slots emptied the lower slot
\* and left the page in the higher one.
ReleaseRemovesOneWitness ==
    \E s \in Sessions, p \in Pages : \E i, j \in Slots :
        /\ call[s].op = "clear" /\ call[s].page = p /\ call[s].ret = 0
        /\ i < j /\ call[s].pre[i] = p /\ call[s].pre[j] = p
        /\ hazard[s][i] = NULL /\ hazard[s][j] = p

\* C7: a __wt_hazard_clear(P) started on a list with no slot holding P ends
\* in the 'hazard reference not found' failure and changes no slot of any
\* session.
ReleaseNotFound ==
    [][\A s \in Sessions, p \in Pages :
          (/\ pc[s] = "idle"
           /\ call'[s] # call[s]
           /\ call'[s].op = "clear" /\ call'[s].page = p
           /\ \A i \in Slots : hazard[s][i] # p) =>
              /\ failure' = "hazard reference not found"
              /\ pc'[s] = "failed"
              /\ hazard' = hazard /\ mem' = mem /\ sb' = sb]_vars

\* C7 witness: a session released a page it does not hold while another
\* session holds that page; the call failed and the other hazard stands.
ReleaseNotFoundWitness ==
    \E s, t \in Sessions :
        /\ s # t
        /\ pc[s] = "failed" /\ failure = "hazard reference not found"
        /\ call[s].op = "clear" /\ call[s].page \in Pages
        /\ \A i \in Slots : hazard[s][i] # call[s].page
        /\ \E i \in Slots : hazard[t][i] = call[s].page

\* C8 as stated: __wt_hazard_clear(NULL) ends in a failure in every build and
\* for every hazard list.
ReleaseNullAlwaysFails ==
    \A s \in Sessions :
        (call[s].op = "clear" /\ call[s].page = NULL) => pc[s] = "failed"

\* C8 amended: __wt_hazard_clear(NULL) leaves every slot with its value; in a
\* diagnostic build it ends in the assertion failure; in another build it
\* ends in 'hazard reference not found' when no slot is empty and otherwise
\* returns, having stored NULL into the lowest-indexed empty slot.
ReleaseNullByBuild ==
    \A s \in Sessions :
        (call[s].op = "clear" /\ call[s].page = NULL) =>
            /\ hazard[s] = call[s].pre
            /\ IF diagnostic
               THEN pc[s] = "failed" /\ failure = "page != NULL"
               ELSE IF \E i \in Slots : call[s].pre[i] = NULL
               THEN /\ pc[s] # "failed" /\ call[s].ret = 0
                    /\ call[s].hp \in Slots
                    /\ call[s].pre[call[s].hp] = NULL
                    /\ \A j \in Slots : j < call[s].hp => call[s].pre[j] # NULL
               ELSE pc[s] = "failed" /\ failure = "hazard reference not found"

\* C8 witness: in a diagnostic build a release of NULL failed on a list with
\* an empty slot and a slot in use.
ReleaseNullWitness ==
    \E s \in Sessions :
        /\ diagnostic
        /\ call[s].op = "clear" /\ call[s].page = NULL /\ pc[s] = "failed"
        /\ \E i \in Slots : call[s].pre[i] = NULL
        /\ \E i \in Slots : call[s].pre[i] # NULL

\* C9: between the calls of an open session, the number of slots holding a
\* page is the number of 1 results for it minus the number of its releases.
SlotAccounting ==
    \A s \in Sessions, p \in Pages :
        (pc[s] = "idle" /\ ~closed[s]) => Holding(hazard[s], p) = held[s][p]

\* C9 witness: a call returned 1 into a slot below a slot in use, a slot that
\* an earlier release had emptied.
SlotReuseWitness ==
    \E s \in Sessions : \E i, j \in Slots :
        /\ pc[s] = "idle" /\ call[s].op = "set" /\ call[s].ret = 1
        /\ call[s].hp = i /\ i < j
        /\ call[s].pre[i] = NULL /\ call[s].pre[j] # NULL
        /\ hazard[s][i] = call[s].page
        /\ held[s][call[s].page] = Holding(hazard[s], call[s].page)

\* C10: __wt_hazard_empty on a list with N slots in use reports N issues and
\* returns with every slot empty, in every build.
CloseGuard ==
    \A s \in Sessions :
        call[s].op = "empty" =>
            /\ closed[s]
            /\ call[s].errx = Cardinality({i \in Slots : call[s].pre[i] # NULL})
            /\ \A i \in Slots : hazard[s][i] = NULL

----------------------------------------------------------------------------
(* __wt_hazard_validate and the eviction server's scan *)

\* The eviction server's scan of page p found no slot holding it and the page
\* is still locked.
ScannedClear(p) ==
    /\ ev.page = p /\ state[p] = "WT_REF_LOCKED"
    /\ \/ ev.pc = "validate"
       \/ ev.pc = "scan" /\ ScanDone(ev)

\* __wt_hazard_validate failed on a slot holding page p.
ValidateFailed(p) ==
    /\ failure = "discarded page has hazard reference"
    /\ ev.pc = "failed" /\ report.page = p

\* C11: once the eviction server's scan of a locked page P has found no slot
\* holding P, no slot of any session holds P for as long as P stays locked,
\* and a match found by __wt_hazard_validate(P) means that some session got 1
\* from __wt_hazard_set(P) and has not released it.
LockedPageStaysClear ==
    \A p \in Pages :
        /\ ScannedClear(p) =>
               \A s \in Sessions, i \in Slots : hazard[s][i] # p /\ mem[s][i] # p
        /\ ValidateFailed(p) => held[report.s][p] > 0

\* __wt_hazard_validate(p) returned: it met no matching slot.
ValidateReturned(p) == p # NULL /\ report.page = p /\ report.s = 0

\* C12: __wt_hazard_validate(P) fails only on a slot that holds P, so with no
\* slot of any session holding P it does not fail; and it returns only after
\* it has examined every slot of every session of conn->sessions, whatever
\* their number.
ValidateTrueNegative ==
    /\ failure = "discarded page has hazard reference" =>
           /\ mem[ev.s][ev.i] = ev.page
           /\ report.page = ev.page /\ report.s = ev.s
    /\ \A p \in Pages : ValidateReturned(p) => report.n = nreg * hazard_size

\* C12 witness: with every session registered, __wt_hazard_validate returned
\* after it examined every slot, one of them holding another page.
ValidateTrueNegativeWitness ==
    \E p \in Pages :
        /\ ValidateReturned(p)
        /\ nreg = NumSessions /\ report.n = NumSessions * hazard_size
        /\ \E s \in Sessions, i \in Slots : mem[s][i] \notin {NULL, p}
        /\ failure = "none"

\* The sessions that got 1 from __wt_hazard_set(p) and have not released it.
Holders(p) == {s \in Sessions : held[s][p] > 0}

\* C13: with one session holding a hazard reference on P,
\* __wt_hazard_validate(P) does not return without a failure, and its failure
\* names that session and the file and line of the __wt_hazard_set call that
\* set the slot.
ValidateTruePositive ==
    \A p \in Pages :
        /\ ValidateReturned(p) => Holders(p) = {}
        /\ \A s \in Sessions :
               (ValidateFailed(p) /\ Holders(p) = {s}) =>
                   /\ report.s = s
                   /\ report.o = origin[s][ev.i]

----------------------------------------------------------------------------
(* Frame, termination, slot choice *)

\* C14: a slot of a session's list changes only in a step of a call made on
\* that session, and becomes visible to the other threads only as a store of
\* that session's own thread; a call on another session, the eviction
\* server's scan and __wt_hazard_validate change no slot.
SingleWriter ==
    [][/\ \A s \in Sessions :
              (hazard'[s] # hazard[s] \/ origin'[s] # origin[s]) =>
                  /\ call'[s] # call[s]
                  /\ \A u \in Sessions \ {s} : call'[u] = call[u]
                  /\ ev' = ev
       /\ \A s \in Sessions :
              (mem'[s] # mem[s] \/ morigin'[s] # morigin[s]) =>
                  \E k \in 1..Len(sb[s]) :
                      /\ mem'[s] = Drain(mem[s], SubSeq(sb[s], 1, k))
                      /\ morigin'[s] =
                             DrainField(morigin[s], SubSeq(sb[s], 1, k), "origin")
       /\ ev' # ev =>
              /\ hazard' = hazard /\ origin' = origin
              /\ mem' = mem /\ morigin' = morigin /\ sb' = sb]_vars

\* C14 witness: a session released a page that another session holds too; the
\* other session's slot still holds the page.
SingleWriterWitness ==
    \E s, u \in Sessions, p \in Pages :
        /\ s # u
        /\ call[s].op = "clear" /\ call[s].page = p /\ call[s].ret = 0
        /\ call[s].hp # 0 /\ Holding(hazard[s], p) = 0
        /\ pc[u] = "idle" /\ held[u][p] = 1 /\ Holding(hazard[u], p) = 1
        /\ Holding(mem[u], p) = 1

ScenarioLog ==
    << <<1, "set", "X", "1">>, <<1, "set", "Y", "1">>, <<1, "set", "Z", "full">>,
       <<1, "clear", "X", "ok">>, <<1, "set", "Z", "1">> >>

BackoutWindowVisible ==
    \A s \in Sessions :
        pc[s] = "set_backout" => mem[s][call[s].hp] = call[s].page

\* C18: __wt_hazard_set does not look for the page in the list: a call that
\* returns 1 for a page held in k slots leaves it in k + 1 slots and one more
\* slot in use, and a __wt_hazard_clear of a page held in k slots leaves it
\* in k - 1, so the page stays in the list until it was released as many
\* times as it was acquired.
NoDeduplication ==
    \A s \in Sessions :
        /\ (call[s].op = "set" /\ call[s].ret = 1) =>
               /\ Holding(hazard[s], call[s].page) =
                      Holding(call[s].pre, call[s].page) + 1
               /\ NonEmpty(hazard[s]) = NonEmpty(call[s].pre) + 1
        /\ (call[s].op = "clear" /\ call[s].ret = 0 /\ call[s].page # NULL) =>
               Holding(hazard[s], call[s].page) =
                   Holding(call[s].pre, call[s].page) - 1
        /\ \A p \in Pages :
               (pc[s] = "idle" /\ ~closed[s] /\ held[s][p] > 0) =>
                   \E i \in Slots : hazard[s][i] = p

\* C18 witness: a session that acquired a page twice, filling both its slots,
\* has released it once and still holds it in one slot.
NoDeduplicationWitness ==
    \E s \in Sessions, p \in Pages :
        /\ call[s].op = "clear" /\ call[s].page = p /\ call[s].ret = 0
        /\ Holding(call[s].pre, p) = 2 /\ NonEmpty(call[s].pre) = 2
        /\ Holding(hazard[s], p) = 1 /\ held[s][p] = 1

----------------------------------------------------------------------------
(* The origin of a hazard reference, in diagnostic builds *)

\* C19: in a diagnostic build a slot that another thread can see as holding a
\* page carries, for that thread, the file and line of the __wt_hazard_set
\* call that published the page, in every state; so does the failure of
\* __wt_hazard_validate; and the slots that __hazard_dump reports, as the
\* session's own thread sees them, carry the call site of their page.
VisibleOriginCurrent ==
    diagnostic =>
        /\ \A s \in Sessions, i \in Slots :
               /\ mem[s][i] # NULL => morigin[s][i] = mby[s][i]
               /\ hazard[s][i] # NULL => origin[s][i] = CallSite(hazard[s][i])
        /\ failure = "discarded page has hazard reference" =>
               report.o = mby[report.s][ev.i]

====
